---- MODULE Spec2Model ----
(***************************************************************************)
(* The compile lock of src/daemon/redis.ts: getCompileLock, its heartbeat  *)
(* timer, its release closure and forceResetLockIfStale, run by several    *)
(* processes against one Redis store, and checkBinaryExistance.            *)
(*                                                                         *)
(* Time is the store's clock in milliseconds.  A store call takes no time  *)
(* but is one step, so the calls of different processes interleave in      *)
(* every order; time passes only while every live process waits (for a     *)
(* timer, for redlock's retries, or for its caller), and then moves to the *)
(* next instant at which something is due.  Timers fire on schedule.       *)
(***************************************************************************)
EXTENDS Integers, FiniteSets, Sequences, TLC

\* ---- program constants
lockTTL == 5000
maxWaitMs == 15000
retryCount == 40
retryDelay == 250
retrySleep == 200

\* Math.floor(lockTTL * 0.7), the heartbeat timer's period
tickEvery == (lockTTL * 7) \div 10
\* lockTTL * 2, the Heartbeat Key's expiry and the staleness threshold
hbExpiry == lockTTL * 2
\* redlock gives up a lock() call after retryCount retries, retryDelay apart
lockPatience == retryCount * retryDelay

\* ---- bounds of the model
NumProcs == 2
MaxCalls == 3
MaxFailures == 1
MaxReleaseCalls == 2
MaxTime == 21000

\* the callers, and the holder that disappears (it only acquires and crashes)
Procs == 1..NumProcs
Holder == NumProcs + 1
AllProcs == Procs \cup {Holder}

\* PTTL's answers for a key that is absent, and for a key with no expiry
Absent == -2
NoExpiry == -1
\* hbAge of a missing heartbeat: Number.POSITIVE_INFINITY
Infinity == MaxTime + hbExpiry + 1

VARIABLES
  now,       \* Date.now() and the store's clock, ms
  res,       \* the resource key compile-<name>: [val, exp]; val = 0: absent
  hb,        \* the heartbeat key compile-<name>:hb: [ts, exp]; ts = 0: absent
  marker,    \* whether the key <name><redisMetadataSuffix> exists
  pc,        \* where each process is in getCompileLock / with its result
  start,     \* getCompileLock's start (line 48)
  until,     \* the instant the pending lock() gives up, or the delay ends
  handle,    \* the value of the Lock the process got from redlock.lock
  ttlRead,   \* forceResetLockIfStale's ttl (line 28)
  timer,     \* whether the setInterval timer (token) is running
  nextTick,  \* when that timer fires next
  tpc,       \* where the heartbeat callback in flight is
  rpc,       \* where the release closure being run is
  relCalls,  \* how often the release function of this call was invoked
  calls,     \* how many getCompileLock calls were made so far
  detCalls,  \* how often the current call has run forceResetLockIfStale
  pass,      \* what the latest forceResetLockIfStale pass of the process did so far
  alive,     \* FALSE once the process has crashed
  chk,       \* outcome of each process's latest checkBinaryExistance
  late,      \* whether the call started after the holder's crash
  nextVal,   \* the next lock value redlock draws (unique per lock)
  fails,     \* store calls that failed so far
  crashedAt  \* when the holder crashed; 0: it has not

storeVars == <<res, hb, marker>>
procVars == <<pc, start, until, handle, ttlRead, timer, nextTick, tpc, rpc,
              relCalls, calls, detCalls, pass, alive, chk, late>>
envVars == <<now, nextVal, fails, crashedAt>>
vars == <<storeVars, procVars, envVars>>

NoKey == [val |-> 0, exp |-> 0]
NoHb == [ts |-> 0, exp |-> 0]
\* a Detector pass that has deleted nothing and met no error
NoPass == [deleted |-> FALSE, failed |-> FALSE]

Init ==
  /\ now = 1
  /\ res = NoKey
  /\ hb = NoHb
  /\ marker = FALSE
  /\ pc = [p \in AllProcs |-> "idle"]
  /\ start = [p \in AllProcs |-> 0]
  /\ until = [p \in AllProcs |-> 0]
  /\ handle = [p \in AllProcs |-> 0]
  /\ ttlRead = [p \in AllProcs |-> 0]
  /\ timer = [p \in AllProcs |-> FALSE]
  /\ nextTick = [p \in AllProcs |-> 0]
  /\ tpc = [p \in AllProcs |-> "none"]
  /\ rpc = [p \in AllProcs |-> "none"]
  /\ relCalls = [p \in AllProcs |-> 0]
  /\ calls = 0
  /\ detCalls = [p \in AllProcs |-> 0]
  /\ pass = [p \in AllProcs |-> NoPass]
  /\ alive = [p \in AllProcs |-> TRUE]
  /\ chk = [p \in AllProcs |-> "none"]
  /\ late = [p \in AllProcs |-> FALSE]
  /\ nextVal = 1
  /\ fails = 0
  /\ crashedAt = 0

\* ---- the store, as the redis commands see it

\* PTTL key
Pttl(k) ==
  IF k.val = 0 THEN Absent
  ELSE IF k.exp = NoExpiry THEN NoExpiry
  ELSE k.exp - now

\* a store call may fail while the budget of failures lasts
MayFail == fails < MaxFailures

\* a key EXPIRE would find: set, and not yet expired
Live(k) == k.val # 0 /\ (k.exp = NoExpiry \/ k.exp > now)
LiveHb(k) == k.ts # 0 /\ (k.exp = NoExpiry \/ k.exp > now)
HbLive == LiveHb(hb)

\* ---- getCompileLock, lines 44-83

\* line 72 with lockTTL in the place of maxWaitMs: the wait cut short
ExhaustedEarly(p) == now - start[p] >= lockTTL

\* line 72: Date.now() - start >= maxWaitMs
Exhausted(p) == now - start[p] >= maxWaitMs

\* lines 71-79, the catch branch up to its next await: the Detector when the
\* wait is used up, the delay otherwise
AfterFailure(p) ==
  IF Exhausted(p)
  THEN /\ pc' = [pc EXCEPT ![p] = "pttl"]
       /\ detCalls' = [detCalls EXCEPT ![p] = @ + 1]
       /\ pass' = [pass EXCEPT ![p] = NoPass]
       /\ UNCHANGED until
  ELSE /\ pc' = [pc EXCEPT ![p] = "sleep"]
       /\ until' = [until EXCEPT ![p] = now + retrySleep]
       /\ UNCHANGED <<detCalls, pass>>

\* line 73-78 with reset = true: no break, on to the delay of line 78
AfterReset(p) ==
  /\ pc' = [pc EXCEPT ![p] = "sleep"]
  /\ until' = [until EXCEPT ![p] = now + retrySleep]

\* lines 74 and 82 with reset = false: break, return the no-op
GiveUp(p) == pc' = [pc EXCEPT ![p] = "noop"]

\* a store call that fails: one of the budget is used
Failing == MayFail /\ fails' = fails + 1

\* lines 44-51: the call starts and redlock.lock is pending
Start(p) ==
  /\ alive[p] /\ calls < MaxCalls
  /\ pc[p] \in {"idle", "released", "noop"}
  /\ tpc[p] = "none" /\ rpc[p] = "none"
  /\ pc' = [pc EXCEPT ![p] = "lock"]
  /\ start' = [start EXCEPT ![p] = now]
  /\ until' = [until EXCEPT ![p] = now + lockPatience]
  /\ calls' = calls + 1
  /\ handle' = [handle EXCEPT ![p] = 0]
  /\ relCalls' = [relCalls EXCEPT ![p] = 0]
  /\ detCalls' = [detCalls EXCEPT ![p] = 0]
  /\ pass' = [pass EXCEPT ![p] = NoPass]
  /\ late' = [late EXCEPT ![p] = crashedAt # 0]
  /\ UNCHANGED <<storeVars, ttlRead, timer, nextTick, tpc, rpc, alive, chk, envVars>>

\* line 51: redlock.lock sets the key if it is not there (SET NX PX)
LockAcquired(p) ==
  /\ alive[p] /\ pc[p] = "lock"
  /\ ~Live(res)
  /\ res' = [val |-> nextVal, exp |-> now + lockTTL]
  /\ handle' = [handle EXCEPT ![p] = nextVal]
  /\ nextVal' = nextVal + 1
  /\ pc' = [pc EXCEPT ![p] = "hbset"]
  /\ UNCHANGED <<hb, marker, start, until, ttlRead, timer, nextTick, tpc, rpc,
                 relCalls, calls, detCalls, pass, alive, chk, late, now, fails, crashedAt>>

\* line 51: redlock.lock rejects once its retries are used up
LockRejected(p) ==
  /\ alive[p] /\ pc[p] = "lock"
  /\ Live(res)
  /\ now >= until[p]
  /\ AfterFailure(p)
  /\ UNCHANGED <<storeVars, start, handle, ttlRead, timer, nextTick, tpc, rpc,
                 relCalls, calls, alive, chk, late, envVars>>

\* line 53 writing the call's start in the place of Date.now()
HbSetStart(p) ==
  /\ alive[p] /\ pc[p] = "hbset"
  /\ hb' = [ts |-> start[p], exp |-> NoExpiry]
  /\ pc' = [pc EXCEPT ![p] = "hbexp"]
  /\ UNCHANGED <<res, marker, start, until, handle, ttlRead, timer, nextTick, tpc,
                 rpc, relCalls, calls, detCalls, pass, alive, chk, late, envVars>>

\* line 53: SET heartbeatKey now (SET drops the key's expiry)
HbSet(p) ==
  /\ alive[p] /\ pc[p] = "hbset"
  /\ hb' = [ts |-> now, exp |-> NoExpiry]
  /\ pc' = [pc EXCEPT ![p] = "hbexp"]
  /\ UNCHANGED <<res, marker, start, until, handle, ttlRead, timer, nextTick, tpc,
                 rpc, relCalls, calls, detCalls, pass, alive, chk, late, envVars>>

HbSetFails(p) ==
  /\ alive[p] /\ pc[p] = "hbset"
  /\ Failing
  /\ AfterFailure(p)
  /\ UNCHANGED <<storeVars, start, handle, ttlRead, timer, nextTick, tpc, rpc,
                 relCalls, calls, alive, chk, late, now, nextVal, crashedAt>>

\* PEXPIRE heartbeatKey lockTTL * 2
Pexpire(k) == IF LiveHb(k) THEN [k EXCEPT !.exp = now + hbExpiry] ELSE k

\* lines 54-70: the expiry is set, the timer started, the release closure returned
HbExpire(p) ==
  /\ alive[p] /\ pc[p] = "hbexp"
  /\ hb' = Pexpire(hb)
  /\ timer' = [timer EXCEPT ![p] = TRUE]
  /\ nextTick' = [nextTick EXCEPT ![p] = now + tickEvery]
  /\ pc' = [pc EXCEPT ![p] = "held"]
  /\ UNCHANGED <<res, marker, start, until, handle, ttlRead, tpc, rpc, relCalls,
                 calls, detCalls, pass, alive, chk, late, envVars>>

HbExpireFails(p) ==
  /\ alive[p] /\ pc[p] = "hbexp"
  /\ Failing
  /\ AfterFailure(p)
  /\ UNCHANGED <<storeVars, start, handle, ttlRead, timer, nextTick, tpc, rpc,
                 relCalls, calls, alive, chk, late, now, nextVal, crashedAt>>

\* line 78: the delay is over, the loop calls redlock.lock again
Retry(p) ==
  /\ alive[p] /\ pc[p] = "sleep"
  /\ now >= until[p]
  /\ pc' = [pc EXCEPT ![p] = "lock"]
  /\ until' = [until EXCEPT ![p] = now + lockPatience]
  /\ UNCHANGED <<storeVars, start, handle, ttlRead, timer, nextTick, tpc, rpc,
                 relCalls, calls, detCalls, pass, alive, chk, late, envVars>>

\* ---- forceResetLockIfStale, lines 26-42

\* lines 31-32: parseInt of the heartbeat read, and its age
HbAge(raw) ==
  LET hbTs == IF raw # 0 THEN raw ELSE 0
  IN IF hbTs # 0 THEN now - hbTs ELSE Infinity

\* line 33 with >= : a heartbeat of exactly 2 x lockTTL counts as stale
StaleInclusive(ttl, hbAge) == ttl = NoExpiry \/ hbAge >= lockTTL * 2

\* line 33 with < : the comparison of the heartbeat's age turned round
StaleFlipped(ttl, hbAge) == ttl = NoExpiry \/ hbAge < lockTTL * 2

\* line 33
Stale(ttl, hbAge) == ttl = NoExpiry \/ hbAge > lockTTL * 2

\* lines 28-29: PTTL resource; -2 returns true
DetPttl(p) ==
  /\ alive[p] /\ pc[p] = "pttl"
  /\ IF Pttl(res) = Absent
     THEN AfterReset(p) /\ UNCHANGED ttlRead
     ELSE /\ pc' = [pc EXCEPT ![p] = "get"]
          /\ ttlRead' = [ttlRead EXCEPT ![p] = Pttl(res)]
          /\ UNCHANGED until
  /\ UNCHANGED <<storeVars, start, handle, timer, nextTick, tpc, rpc, relCalls,
                 calls, detCalls, pass, alive, chk, late, envVars>>

\* lines 38-41: an error is caught and false returned
DetPttlFails(p) ==
  /\ alive[p] /\ pc[p] = "pttl"
  /\ Failing
  /\ GiveUp(p)
  /\ pass' = [pass EXCEPT ![p].failed = TRUE]
  /\ UNCHANGED <<storeVars, start, until, handle, ttlRead, timer, nextTick, tpc,
                 rpc, relCalls, calls, detCalls, alive, chk, late, now, nextVal, crashedAt>>

\* lines 30-33: GET heartbeatKey and the decision
DetGet(p) ==
  /\ alive[p] /\ pc[p] = "get"
  /\ IF Stale(ttlRead[p], HbAge(IF HbLive THEN hb.ts ELSE 0))
     THEN pc' = [pc EXCEPT ![p] = "delres"]
     ELSE GiveUp(p)
  /\ ttlRead' = [ttlRead EXCEPT ![p] = 0]
  /\ UNCHANGED <<storeVars, start, until, handle, timer, nextTick, tpc, rpc,
                 relCalls, calls, detCalls, pass, alive, chk, late, envVars>>

\* lines 38-41 returning true on an error: the heartbeat could not be read and
\* the lock is broken all the same
DetGetFailsTrue(p) ==
  /\ alive[p] /\ pc[p] = "get"
  /\ Failing
  /\ pass' = [pass EXCEPT ![p].failed = TRUE]
  /\ AfterReset(p)
  /\ ttlRead' = [ttlRead EXCEPT ![p] = 0]
  /\ UNCHANGED <<storeVars, start, handle, timer, nextTick, tpc, rpc,
                 relCalls, calls, detCalls, alive, chk, late, now, nextVal, crashedAt>>

DetGetFails(p) ==
  /\ alive[p] /\ pc[p] = "get"
  /\ Failing
  /\ GiveUp(p)
  /\ ttlRead' = [ttlRead EXCEPT ![p] = 0]
  /\ pass' = [pass EXCEPT ![p].failed = TRUE]
  /\ UNCHANGED <<storeVars, start, until, handle, timer, nextTick, tpc, rpc,
                 relCalls, calls, detCalls, alive, chk, late, now, nextVal, crashedAt>>

\* line 34: DEL resource
DetDelRes(p) ==
  /\ alive[p] /\ pc[p] = "delres"
  /\ res' = NoKey
  /\ pc' = [pc EXCEPT ![p] = "delhb"]
  /\ pass' = [pass EXCEPT ![p].deleted = Live(res)]
  /\ UNCHANGED <<hb, marker, start, until, handle, ttlRead, timer, nextTick, tpc,
                 rpc, relCalls, calls, detCalls, alive, chk, late, envVars>>

DetDelResFails(p) ==
  /\ alive[p] /\ pc[p] = "delres"
  /\ Failing
  /\ GiveUp(p)
  /\ pass' = [pass EXCEPT ![p].failed = TRUE]
  /\ UNCHANGED <<storeVars, start, until, handle, ttlRead, timer, nextTick, tpc,
                 rpc, relCalls, calls, detCalls, alive, chk, late, now, nextVal, crashedAt>>

\* lines 35-36: DEL heartbeatKey; returns true
DetDelHb(p) ==
  /\ alive[p] /\ pc[p] = "delhb"
  /\ hb' = NoHb
  /\ AfterReset(p)
  /\ UNCHANGED <<res, marker, start, handle, ttlRead, timer, nextTick, tpc, rpc,
                 relCalls, calls, detCalls, pass, alive, chk, late, envVars>>

DetDelHbFails(p) ==
  /\ alive[p] /\ pc[p] = "delhb"
  /\ Failing
  /\ GiveUp(p)
  /\ pass' = [pass EXCEPT ![p].failed = TRUE]
  /\ UNCHANGED <<storeVars, start, until, handle, ttlRead, timer, nextTick, tpc,
                 rpc, relCalls, calls, detCalls, alive, chk, late, now, nextVal, crashedAt>>

\* ---- the heartbeat timer's callback, lines 56-64

\* line 64: the timer fires and the callback starts
TickStart(p) ==
  /\ alive[p] /\ timer[p] /\ tpc[p] = "none"
  /\ now >= nextTick[p]
  /\ tpc' = [tpc EXCEPT ![p] = "extend"]
  /\ nextTick' = [nextTick EXCEPT ![p] = @ + tickEvery]
  /\ UNCHANGED <<storeVars, pc, start, until, handle, ttlRead, timer, rpc,
                 relCalls, calls, detCalls, pass, alive, chk, late, envVars>>

\* lock.extend: the key's expiry is moved if the key still holds this lock's value
Extend(k, v) == IF Live(k) /\ k.val = v THEN [k EXCEPT !.exp = now + lockTTL] ELSE k

\* line 58: lock.extend(lockTTL); it rejects when the key is not this lock's
TickExtend(p) ==
  /\ alive[p] /\ tpc[p] = "extend"
  /\ res' = Extend(res, handle[p])
  /\ tpc' = [tpc EXCEPT ![p] = IF Live(res) /\ res.val = handle[p] THEN "set" ELSE "none"]
  /\ UNCHANGED <<hb, marker, pc, start, until, handle, ttlRead, timer, nextTick,
                 rpc, relCalls, calls, detCalls, pass, alive, chk, late, envVars>>

\* lines 61-63: whatever fails in the callback is caught and dropped
TickExtendFails(p) ==
  /\ alive[p] /\ tpc[p] = "extend"
  /\ Failing
  /\ tpc' = [tpc EXCEPT ![p] = "none"]
  /\ UNCHANGED <<storeVars, pc, start, until, handle, ttlRead, timer, nextTick,
                 rpc, relCalls, calls, detCalls, pass, alive, chk, late, now, nextVal, crashedAt>>

\* line 59
TickSet(p) ==
  /\ alive[p] /\ tpc[p] = "set"
  /\ hb' = [ts |-> now, exp |-> NoExpiry]
  /\ tpc' = [tpc EXCEPT ![p] = "pexp"]
  /\ UNCHANGED <<res, marker, pc, start, until, handle, ttlRead, timer, nextTick,
                 rpc, relCalls, calls, detCalls, pass, alive, chk, late, envVars>>

\* lines 61-63 with a clearInterval in the catch: a failed write stops the timer
TickSetFailsStops(p) ==
  /\ alive[p] /\ tpc[p] = "set"
  /\ Failing
  /\ tpc' = [tpc EXCEPT ![p] = "none"]
  /\ timer' = [timer EXCEPT ![p] = FALSE]
  /\ UNCHANGED <<storeVars, pc, start, until, handle, ttlRead, nextTick,
                 rpc, relCalls, calls, detCalls, pass, alive, chk, late, now, nextVal, crashedAt>>

TickSetFails(p) ==
  /\ alive[p] /\ tpc[p] = "set"
  /\ Failing
  /\ tpc' = [tpc EXCEPT ![p] = "none"]
  /\ UNCHANGED <<storeVars, pc, start, until, handle, ttlRead, timer, nextTick,
                 rpc, relCalls, calls, detCalls, pass, alive, chk, late, now, nextVal, crashedAt>>

\* line 60
TickExpire(p) ==
  /\ alive[p] /\ tpc[p] = "pexp"
  /\ hb' = Pexpire(hb)
  /\ tpc' = [tpc EXCEPT ![p] = "none"]
  /\ UNCHANGED <<res, marker, pc, start, until, handle, ttlRead, timer, nextTick,
                 rpc, relCalls, calls, detCalls, pass, alive, chk, late, envVars>>

TickExpireFails(p) ==
  /\ alive[p] /\ tpc[p] = "pexp"
  /\ Failing
  /\ tpc' = [tpc EXCEPT ![p] = "none"]
  /\ UNCHANGED <<storeVars, pc, start, until, handle, ttlRead, timer, nextTick,
                 rpc, relCalls, calls, detCalls, pass, alive, chk, late, now, nextVal, crashedAt>>

\* ---- the release closure, lines 66-70

\* line 67 without clearInterval: the release function leaves the timer running
InvokeKeepsTimer(p) ==
  /\ UNCHANGED <<timer, nextTick>>
  /\ rpc' = [rpc EXCEPT ![p] = "unlock"]
  /\ pc' = [pc EXCEPT ![p] = "released"]
  /\ relCalls' = [relCalls EXCEPT ![p] = @ + 1]

\* line 67: the release function starts; clearInterval(token) stops the timer
Invoke(p) ==
  /\ timer' = [timer EXCEPT ![p] = FALSE]
  /\ nextTick' = [nextTick EXCEPT ![p] = 0]
  /\ rpc' = [rpc EXCEPT ![p] = "unlock"]
  /\ pc' = [pc EXCEPT ![p] = "released"]
  /\ relCalls' = [relCalls EXCEPT ![p] = @ + 1]

\* lines 66-67: the caller invokes the release function it was returned
ReleaseCall(p) ==
  /\ alive[p] /\ pc[p] = "held"
  /\ Invoke(p)
  /\ UNCHANGED <<storeVars, start, until, handle, ttlRead, tpc, calls, detCalls, pass,
                 alive, chk, late, envVars>>

\* lines 66-67: the caller invokes the same release function once more
ReleaseAgain(p) ==
  /\ alive[p] /\ pc[p] = "released"
  /\ rpc[p] = "none" /\ relCalls[p] < MaxReleaseCalls
  /\ Invoke(p)
  /\ UNCHANGED <<storeVars, start, until, handle, ttlRead, tpc, calls, detCalls, pass,
                 alive, chk, late, envVars>>

\* line 68 without its effect: an unlock that leaves the key to run out
UnlockLazy(k, v) == k

\* lock.unlock: the key is deleted if it still holds this lock's value
Unlock(k, v) == IF Live(k) /\ k.val = v THEN NoKey ELSE k

\* line 68
RelUnlock(p) ==
  /\ alive[p] /\ rpc[p] = "unlock"
  /\ res' = Unlock(res, handle[p])
  /\ rpc' = [rpc EXCEPT ![p] = "delhb"]
  /\ UNCHANGED <<hb, marker, pc, start, until, handle, ttlRead, timer, nextTick,
                 tpc, relCalls, calls, detCalls, pass, alive, chk, late, envVars>>

\* lines 68-69 inside one try block: a failed unlock skips the DEL
RelUnlockAborts(p) ==
  /\ alive[p] /\ rpc[p] = "unlock"
  /\ Failing
  /\ rpc' = [rpc EXCEPT ![p] = "none"]
  /\ UNCHANGED <<storeVars, pc, start, until, handle, ttlRead, timer, nextTick,
                 tpc, relCalls, calls, detCalls, pass, alive, chk, late, now, nextVal, crashedAt>>

\* line 68: lock.unlock rejects; the error is caught and dropped
RelUnlockFails(p) ==
  /\ alive[p] /\ rpc[p] = "unlock"
  /\ Failing
  /\ rpc' = [rpc EXCEPT ![p] = "delhb"]
  /\ UNCHANGED <<storeVars, pc, start, until, handle, ttlRead, timer, nextTick,
                 tpc, relCalls, calls, detCalls, pass, alive, chk, late, now, nextVal, crashedAt>>

\* line 69: DEL heartbeatKey
RelDelHb(p) ==
  /\ alive[p] /\ rpc[p] = "delhb"
  /\ hb' = NoHb
  /\ rpc' = [rpc EXCEPT ![p] = "none"]
  /\ UNCHANGED <<res, marker, pc, start, until, handle, ttlRead, timer, nextTick,
                 tpc, relCalls, calls, detCalls, pass, alive, chk, late, envVars>>

RelDelHbFails(p) ==
  /\ alive[p] /\ rpc[p] = "delhb"
  /\ Failing
  /\ rpc' = [rpc EXCEPT ![p] = "none"]
  /\ UNCHANGED <<storeVars, pc, start, until, handle, ttlRead, timer, nextTick,
                 tpc, relCalls, calls, detCalls, pass, alive, chk, late, now, nextVal, crashedAt>>

\* line 82: the caller invokes the no-op release function
NoopRelease(p) ==
  /\ alive[p] /\ pc[p] = "noop"
  /\ relCalls[p] = 0
  /\ relCalls' = [relCalls EXCEPT ![p] = @ + 1]
  /\ UNCHANGED <<storeVars, pc, start, until, handle, ttlRead, timer, nextTick,
                 tpc, rpc, calls, detCalls, pass, alive, chk, late, envVars>>

\* ---- the environment

\* the holder dies: its timer and whatever it was doing stop
Crash(p) ==
  /\ alive[p] /\ pc[p] = "held"
  /\ alive' = [alive EXCEPT ![p] = FALSE]
  /\ crashedAt' = now
  /\ timer' = [timer EXCEPT ![p] = FALSE]
  /\ nextTick' = [nextTick EXCEPT ![p] = 0]
  /\ tpc' = [tpc EXCEPT ![p] = "none"]
  /\ UNCHANGED <<storeVars, pc, start, until, handle, ttlRead, rpc, relCalls,
                 calls, detCalls, pass, chk, late, now, nextVal, fails>>

\* a live process with nothing to do at this instant
Waiting(p) ==
  /\ tpc[p] = "none" /\ rpc[p] = "none"
  /\ timer[p] => now < nextTick[p]
  /\ \/ pc[p] \in {"idle", "held", "released", "noop"}
     \/ pc[p] = "lock" /\ Live(res) /\ now < until[p]
     \/ pc[p] = "sleep" /\ now < until[p]

\* the instants at which something is due
Deadlines ==
  {until[p] : p \in {q \in AllProcs : alive[q] /\ pc[q] \in {"lock", "sleep"}}}
  \cup {nextTick[p] : p \in {q \in AllProcs : alive[q] /\ timer[q]}}
  \cup (IF Live(res) /\ res.exp # NoExpiry THEN {res.exp} ELSE {})
  \cup (IF HbLive /\ hb.exp # NoExpiry THEN {hb.exp} ELSE {})
  \cup (IF HbLive THEN {hb.ts + lockTTL * 2 + 1} ELSE {})

Future == {d \in Deadlines : d > now /\ d <= MaxTime}

Min(S) == CHOOSE x \in S : \A y \in S : x <= y

\* the store drops a key whose expiry has come
Expired(k, t) == k.exp # NoExpiry /\ k.exp <= t

\* time passes, to the next instant at which something is due
AdvanceTime ==
  /\ \A p \in AllProcs : alive[p] => Waiting(p)
  /\ Future # {}
  /\ now' = Min(Future)
  /\ res' = IF res.val # 0 /\ Expired(res, now') THEN NoKey ELSE res
  /\ hb' = IF hb.ts # 0 /\ Expired(hb, now') THEN NoHb ELSE hb
  /\ UNCHANGED <<marker, procVars, nextVal, fails, crashedAt>>

\* ---- checkBinaryExistance, lines 19-21

\* some compile stores the binary's metadata
SetMarker ==
  /\ ~marker
  /\ marker' = TRUE
  /\ UNCHANGED <<res, hb, procVars, envVars>>

\* line 20: !!(await redisClient.existsAsync(...))
CheckExists(p) ==
  /\ alive[p]
  /\ chk' = [chk EXCEPT ![p] = IF marker THEN "true" ELSE "false"]
  /\ UNCHANGED <<storeVars, pc, start, until, handle, ttlRead, timer, nextTick,
                 tpc, rpc, relCalls, calls, detCalls, pass, alive, late, envVars>>

\* line 20: existsAsync rejects, nothing catches it
CheckExistsFails(p) ==
  /\ alive[p]
  /\ Failing
  /\ chk' = [chk EXCEPT ![p] = "threw"]
  /\ UNCHANGED <<storeVars, pc, start, until, handle, ttlRead, timer, nextTick,
                 tpc, rpc, relCalls, calls, detCalls, pass, alive, late, now, nextVal, crashedAt>>

\* ---- the specifications

Acquire(p) ==
  \/ LockAcquired(p) \/ LockRejected(p)
  \/ HbSet(p) \/ HbExpire(p) \/ Retry(p)

Detect(p) == DetPttl(p) \/ DetGet(p) \/ DetDelRes(p) \/ DetDelHb(p)

Tick(p) == TickStart(p) \/ TickExtend(p) \/ TickSet(p) \/ TickExpire(p)

Release(p) == ReleaseCall(p) \/ RelUnlock(p) \/ RelDelHb(p) \/ NoopRelease(p)

StoreFails(p) ==
  \/ HbSetFails(p) \/ HbExpireFails(p)
  \/ DetPttlFails(p) \/ DetGetFails(p) \/ DetDelResFails(p) \/ DetDelHbFails(p)
  \/ TickExtendFails(p) \/ TickSetFails(p) \/ TickExpireFails(p)
  \/ RelUnlockFails(p) \/ RelDelHbFails(p)

\* what a process does, once getCompileLock is called, while the store works
Run(p) == Acquire(p) \/ Detect(p) \/ Tick(p) \/ Release(p)

Step(p) == Start(p) \/ Run(p)

\* the callers, the store working
NextNormal ==
  \/ \E p \in Procs : Step(p)
  \/ AdvanceTime

\* the callers, with store calls that fail
Next ==
  \/ NextNormal
  \/ \E p \in Procs : StoreFails(p)

Spec == Init /\ [][Next]_vars

SpecNormal == Init /\ [][NextNormal]_vars

\* the callers, with heartbeat callbacks whose store calls fail
TickFails(p) == TickExtendFails(p) \/ TickSetFails(p) \/ TickExpireFails(p)

NextTicks ==
  \/ NextNormal
  \/ \E p \in Procs : TickFails(p)

SpecTicks == Init /\ [][NextTicks]_vars

\* the callers, invoking a release function more than once
NextTwice ==
  \/ NextNormal
  \/ \E p \in Procs : ReleaseAgain(p)

SpecTwice == Init /\ [][NextTwice]_vars

\* the holder that disappears: it acquires, keeps its heartbeat going, and crashes
HolderStep ==
  \/ Start(Holder) \/ LockAcquired(Holder) \/ HbSet(Holder) \/ HbExpire(Holder)
  \/ Tick(Holder)
  \/ Crash(Holder)

\* a call made after the holder's crash
LateStart(p) == crashedAt # 0 /\ Start(p)

\* the holder acquires and crashes; the callers call after that
NextCrash ==
  \/ HolderStep
  \/ \E p \in Procs : LateStart(p) \/ Run(p)
  \/ AdvanceTime

\* what a process does by itself once its caller has called: the event loop runs
\* every continuation that is ready, and time passes
Internal(p) ==
  \/ LockAcquired(p) \/ LockRejected(p) \/ HbSet(p) \/ HbExpire(p) \/ Retry(p)
  \/ Detect(p) \/ Tick(p) \/ RelUnlock(p) \/ RelDelHb(p)

SpecCrash ==
  /\ Init /\ [][NextCrash]_vars
  /\ \A p \in AllProcs : WF_vars(Internal(p))
  /\ WF_vars(AdvanceTime)

\* checkBinaryExistance beside callers that take and release the lock at one
\* instant, with store calls that fail
NextExist ==
  \/ SetMarker
  \/ \E p \in Procs : CheckExists(p) \/ CheckExistsFails(p)
  \/ \E p \in Procs : Start(p) \/ LockAcquired(p) \/ HbSet(p) \/ HbExpire(p)
  \/ \E p \in Procs : ReleaseCall(p) \/ RelUnlock(p) \/ RelDelHb(p)
  \/ \E p \in Procs : HbSetFails(p) \/ HbExpireFails(p) \/ RelUnlockFails(p) \/ RelDelHbFails(p)

SpecExist == Init /\ [][NextExist]_vars

\* forceResetLockIfStale as a function of the store: process 1 enters it (its
\* wait used up) with the two keys in any state
DetAges == {0, 1, lockTTL, hbExpiry - 1, hbExpiry, hbExpiry + 1, hbExpiry + lockTTL}
DetNow == maxWaitMs + hbExpiry + lockTTL + 1

InitDetector ==
  /\ now = DetNow
  /\ res \in {NoKey} \cup {[val |-> 1, exp |-> e] : e \in {NoExpiry, DetNow + 1, DetNow + lockTTL}}
  /\ hb \in {NoHb} \cup {[ts |-> DetNow - a, exp |-> e] : a \in DetAges, e \in {NoExpiry, DetNow + 1}}
  /\ marker = FALSE
  /\ pc = [p \in AllProcs |-> IF p = 1 THEN "pttl" ELSE "idle"]
  /\ start = [p \in AllProcs |-> IF p = 1 THEN DetNow - maxWaitMs ELSE 0]
  /\ until = [p \in AllProcs |-> 0]
  /\ handle = [p \in AllProcs |-> 0]
  /\ ttlRead = [p \in AllProcs |-> 0]
  /\ timer = [p \in AllProcs |-> FALSE]
  /\ nextTick = [p \in AllProcs |-> 0]
  /\ tpc = [p \in AllProcs |-> "none"]
  /\ rpc = [p \in AllProcs |-> "none"]
  /\ relCalls = [p \in AllProcs |-> 0]
  /\ calls = 1
  /\ detCalls = [p \in AllProcs |-> IF p = 1 THEN 1 ELSE 0]
  /\ pass = [p \in AllProcs |-> NoPass]
  /\ alive = [p \in AllProcs |-> TRUE]
  /\ chk = [p \in AllProcs |-> "none"]
  /\ late = [p \in AllProcs |-> FALSE]
  /\ nextVal = 2
  /\ fails = 0
  /\ crashedAt = 0

NextDetector == \E p \in Procs : DetPttl(p) \/ DetGet(p) \/ DetDelRes(p) \/ DetDelHb(p)

SpecDetector == InitDetector /\ [][NextDetector]_vars

\* ---- the claims

\* the process was returned a real release function and has not invoked it
Holds(p) == alive[p] /\ pc[p] = "held"

\* C1: mutual exclusion. While the store works, no two processes hold a real
\* release function of the resource at the same time.
C1_MutualExclusion ==
  \A p, q \in AllProcs : Holds(p) /\ Holds(q) => p = q

\* C2: store calls that fail never lead to two processes holding a real release
\* function at the same time.
C2_NoDoubleHoldAfterFailure ==
  fails > 0 => \A p, q \in Procs : Holds(p) /\ Holds(q) => p = q

\* the clock of the model has reached its bound: nothing more is due within it,
\* something is due beyond it
TimeUp == Future = {} /\ \E d \in Deadlines : d > MaxTime

C4_OneDetectorPass ==
  \A p \in Procs : detCalls[p] <= 1

\* C5: no public operation ends with an error raised to its caller.
C5_NothingThrown ==
  \A p \in Procs : chk[p] # "threw" /\ pc[p] # "threw"

\* C6: the release function stops the timer when invoked, goes on to the unlock,
\* then to the deletion of the heartbeat key, then completes, whichever of its
\* store calls fail; the no-op completes at once.
C6_ReleaseBestEffort ==
  [][\A p \in Procs :
       /\ (pc[p] = "held" /\ pc'[p] = "released") => (~timer'[p] /\ rpc'[p] = "unlock")
       /\ (rpc[p] = "unlock" /\ rpc'[p] # "unlock") => rpc'[p] = "delhb"
       /\ (rpc[p] = "delhb" /\ rpc'[p] # "delhb") => rpc'[p] = "none"
       /\ (rpc'[p] # "none") => ~timer'[p]
       /\ (pc[p] = "noop" /\ relCalls'[p] = relCalls[p] + 1)
            => (rpc'[p] = "none" /\ pc'[p] = "noop")
       /\ pc'[p] # "threw"]_vars

\* the unlock of a release failed (the key still holds the lock's value) and the
\* release is at the deletion of the heartbeat key, its timer stopped
C6_Witness ==
  \E p \in Procs :
    rpc[p] = "delhb" /\ fails > 0 /\ Live(res) /\ res.val = handle[p] /\ ~timer[p]

\* C7: a second invocation of a release function leaves both keys as they were.
C7_SecondReleaseNoEffect ==
  [][\A p \in Procs :
       (relCalls[p] >= 2 /\ rpc[p] # "none" /\ rpc'[p] # rpc[p])
         => (res' = res /\ hb' = hb)]_vars

Detecting(p) == pc[p] \in {"pttl", "get", "delres", "delhb"}

\* C9: the Detector runs, and the no-op is returned, only with the wait used up;
\* before that a failed attempt is followed by the delay and a retry; the no-op
\* touches no key.
C9_NoopOnlyAfterExhaustion ==
  [][\A p \in Procs :
       /\ Detecting(p)' => now' - start'[p] >= maxWaitMs
       /\ (pc[p] # "noop" /\ pc'[p] = "noop") => (Detecting(p) /\ now - start[p] >= maxWaitMs)
       /\ (pc[p] \in {"lock", "hbset", "hbexp"} /\ now - start[p] < maxWaitMs
             /\ pc'[p] \notin {"lock", "hbset", "hbexp", "held"})
            => (pc'[p] = "sleep" /\ until'[p] = now + retrySleep)
       /\ (pc[p] = "sleep" /\ pc'[p] # "sleep") => (pc'[p] = "lock" /\ now >= until[p])
       /\ (pc[p] = "noop" /\ relCalls'[p] = relCalls[p] + 1) => (res' = res /\ hb' = hb)]_vars

\* a call was returned the no-op, and one failed early and waits for its retry
C9_Witness ==
  \E p, q \in Procs :
    /\ pc[p] = "noop" /\ relCalls[p] = 1
    /\ pc[q] = "sleep" /\ now - start[q] < maxWaitMs

\* C10: the Detector's decision. (a) key absent: true, nothing read or deleted;
\* (b) no expiry: both keys deleted, true, whatever the heartbeat; (c) a lease
\* left and the heartbeat missing or older than 2 x lockTTL: both keys deleted,
\* true; (d) otherwise nothing deleted, false.
C10_DetectorDecision ==
  [][\A p \in Procs :
       /\ (pc[p] = "pttl" /\ pc'[p] # "pttl" /\ Pttl(res) = Absent)
            => (pc'[p] = "sleep" /\ res' = res /\ hb' = hb)
       /\ (pc[p] = "pttl" /\ pc'[p] # "pttl" /\ Pttl(res) # Absent)
            => (pc'[p] = "get" /\ ttlRead'[p] = Pttl(res) /\ res' = res /\ hb' = hb)
       /\ (pc[p] = "get" /\ pc'[p] # "get" /\ ttlRead[p] = NoExpiry)
            => (pc'[p] = "delres" /\ res' = res /\ hb' = hb)
       /\ (pc[p] = "get" /\ pc'[p] # "get" /\ ttlRead[p] > 0
             /\ (~HbLive \/ now - hb.ts > 2 * lockTTL))
            => (pc'[p] = "delres" /\ res' = res /\ hb' = hb)
       /\ (pc[p] = "get" /\ pc'[p] # "get" /\ ttlRead[p] > 0
             /\ HbLive /\ now - hb.ts <= 2 * lockTTL)
            => (pc'[p] = "noop" /\ res' = res /\ hb' = hb)
       /\ (pc[p] = "delres" /\ pc'[p] # "delres")
            => (pc'[p] = "delhb" /\ res' = NoKey /\ hb' = hb)
       /\ (pc[p] = "delhb" /\ pc'[p] # "delhb")
            => (pc'[p] = "sleep" /\ hb' = NoHb /\ res' = res)]_vars

\* the Detector has deleted a key without expiry although the heartbeat is fresh
C10_Witness ==
  \E p \in Procs : pc[p] = "delhb" /\ res = NoKey /\ HbLive /\ now - hb.ts <= 2 * lockTTL

\* C11: a store call of a Detector pass that fails makes the pass return false:
\* the call of getCompileLock goes to the no-op at once, with no key touched,
\* and a pass that met an error never leads on to the delay and a retry.
C11_ConservativeOnErrors ==
  [][\A p \in Procs :
       /\ (Detecting(p) /\ ~pass[p].failed /\ pass'[p].failed)
            => (pc'[p] = "noop" /\ res' = res /\ hb' = hb)
       /\ pass'[p].failed => pc'[p] = "noop"]_vars

\* a pass found the resource key with a lease, failed to read the heartbeat,
\* and its call was returned the no-op with the key still in place
C11_Witness ==
  \E p \in Procs :
    pc[p] = "noop" /\ pass[p].failed /\ ~pass[p].deleted /\ Live(res)

\* C12: a timer runs in a process only while the process holds a real release
\* function it has not invoked, and a heartbeat callback starts only then; after
\* the invocation only a callback already in flight goes on.
C12_TimerOnlyWhileHeld ==
  [][\A p \in Procs :
       /\ timer'[p] => pc'[p] = "held"
       /\ (tpc[p] = "none" /\ tpc'[p] # "none") => (timer[p] /\ pc[p] = "held")
       /\ (pc[p] = "held" /\ pc'[p] = "released") => ~timer'[p]]_vars

\* the release function was invoked while a callback was in flight: the timer is
\* stopped and the callback is still at its store calls
C12_Witness ==
  \E p \in Procs : pc[p] = "released" /\ ~timer[p] /\ tpc[p] # "none"

\* C13: while heartbeat ticks of a held lock fail (no more than twice in a row),
\* the passing of time does not take the lease from its holder.
C13_LeaseSurvivesFailedTicks ==
  [][\A p \in Procs :
       (Holds(p) /\ Live(res) /\ res.val = handle[p] /\ fails <= 2 /\ now' > now)
         => (Live(res') /\ res'.val = handle[p])]_vars

C15_RetryAtOnceAfterReset ==
  [][\A p \in Procs :
       (Detecting(p) /\ ~Detecting(p)' /\ pc'[p] # "noop") => pc'[p] = "lock"]_vars

\* C16: a timer callback starts when its timer is due and begins with the
\* extend; an extend that succeeds moves the lease to now + lockTTL, then the
\* heartbeat is rewritten with the current time, then its expiry set to
\* 2 x lockTTL; a store call of the callback that fails ends the callback, with
\* no key changed, the timer and its schedule as they were, nothing raised.
C16_TickSteps ==
  [][\A p \in Procs :
       /\ (tpc[p] = "none" /\ tpc'[p] # "none")
            => /\ tpc'[p] = "extend" /\ timer[p] /\ now >= nextTick[p]
               /\ nextTick'[p] = nextTick[p] + tickEvery
       /\ (tpc[p] = "extend" /\ tpc'[p] = "set")
            => res' = [val |-> handle[p], exp |-> now + lockTTL]
       /\ (tpc[p] = "set" /\ tpc'[p] = "pexp")
            => (hb'.ts = now /\ res' = res)
       /\ (tpc[p] = "pexp" /\ tpc'[p] = "none" /\ fails' = fails /\ HbLive)
            => (hb' = [ts |-> hb.ts, exp |-> now + hbExpiry] /\ res' = res)
       /\ (tpc[p] # "none" /\ tpc'[p] # tpc[p] /\ fails' # fails)
            => /\ tpc'[p] = "none" /\ res' = res /\ hb' = hb
               /\ timer' = timer /\ nextTick' = nextTick /\ pc' = pc
       /\ (timer[p] /\ timer'[p]) => nextTick'[p] >= nextTick[p]]_vars

\* a callback failed at the heartbeat write, and the next callback, one period
\* later, has extended the lease again and is about to write the heartbeat
C16_Witness ==
  \E p \in Procs :
    /\ Holds(p) /\ timer[p] /\ fails > 0 /\ tpc[p] = "set"
    /\ res = [val |-> handle[p], exp |-> now + lockTTL]
    /\ HbLive /\ now - hb.ts >= 2 * tickEvery

\* the process has the lock of the resource key, is alive, and has not invoked
\* its release function
Healthy(q) ==
  /\ alive[q] /\ pc[q] \in {"hbset", "hbexp", "held"}
  /\ Live(res) /\ res.val = handle[q]

\* C17: with every store call succeeding and the timers on schedule, no Detector
\* pass of another process finds the lock of a healthy holder stale or deletes
\* its resource key.
C17_NoFalseStaleness ==
  [][\A p, q \in Procs :
       (p # q /\ Healthy(q))
         => /\ (pc[p] = "get" /\ pc'[p] # "get") => pc'[p] = "noop"
            /\ (pc[p] = "delres" /\ pc'[p] # "delres") => res' = res]_vars

\* the resource key holds the lock of another process than p, that process
\* alive with its heartbeat written
Superseded(p) ==
  \E q \in Procs \ {p} :
    /\ alive[q] /\ pc[q] \in {"hbexp", "held"}
    /\ Live(res) /\ res.val = handle[q] /\ HbLive

\* C18: a timer callback or a release function of a process whose lock is no
\* longer the one in the resource key changes neither that key nor the heartbeat
\* key of the process that has the lock now.
C18_OtherInstanceUntouched ==
  [][\A p \in Procs :
       (Superseded(p) /\ (tpc'[p] # tpc[p] \/ rpc'[p] # rpc[p]))
         => (res' = res /\ hb' = hb)]_vars

\* C19: a process that is not at the initial heartbeat or holding the real
\* release function (it waits for redlock, sleeps, runs the Detector or was
\* returned the no-op) owns no lease in the resource key.
C19_NoLeakedLease ==
  \A p \in Procs :
    pc[p] \in {"lock", "sleep", "pttl", "get", "delres", "delhb", "noop"}
      => ~(Live(res) /\ res.val = handle[p])

\* C20: a Detector pass that returned false (its call went to the no-op) has
\* deleted no key.
C20_FalseLeavesStoreUnchanged ==
  \A p \in Procs : pc[p] = "noop" => ~pass[p].deleted

====
